---- MODULE Spec2Model ----
\* Model of the adaptive-bitrate pipeline:
\*   - the transcode worker   (src/container/index.js)
\*   - the event dispatcher   (src/consumer/src/index.ts, lines 1-190)
\* Strings the code computes with (keys, file names, rendition names) are
\* sequences of one-character strings, so that split / replace / startsWith /
\* endsWith / extname are computed the way the code computes them.
EXTENDS Integers, Sequences, FiniteSets, TLC

\* ------------------------------------------------------------------ bounds
\* Largest number of .ts segments the encoder writes for one rendition.
MaxSegs == 2
\* Number of runs of the worker on the same source key (re-dispatch).
MaxRuns == 2
\* Largest number of records in one queue message.
MaxRecords == 2
\* an object key of the key-naming runs is built of at most this many tokens
MaxKeyTokens == 4

\* ----------------------------------------------------------- string helpers
Digits == <<"0", "1", "2", "3", "4", "5", "6", "7", "8", "9">>

RECURSIVE ToStr(_)
\* Number.prototype.toString / printf %d for a natural number
ToStr(n) == IF n < 10 THEN <<Digits[n + 1]>> ELSE ToStr(n \div 10) \o <<Digits[(n % 10) + 1]>>

RECURSIVE Zeros(_)
Zeros(n) == IF n <= 0 THEN <<>> ELSE <<"0">> \o Zeros(n - 1)

\* printf %0<width>d
Pad(n, width) == Zeros(width - Len(ToStr(n))) \o ToStr(n)

\* does pat occur in s at position p (1-based)
MatchAt(s, pat, p) ==
    /\ p >= 1
    /\ p + Len(pat) - 1 <= Len(s)
    /\ \A k \in 1..Len(pat) : s[p + k - 1] = pat[k]

\* String.prototype.indexOf, 1-based, 0 when absent
IndexOf(s, pat) ==
    IF \E p \in 1..Len(s) : MatchAt(s, pat, p)
    THEN CHOOSE p \in 1..Len(s) : MatchAt(s, pat, p) /\ \A q \in 1..(p - 1) : ~MatchAt(s, pat, q)
    ELSE 0

\* String.prototype.replace with a string pattern: the first occurrence only
ReplaceFirst(s, pat, rep) ==
    LET p == IndexOf(s, pat)
    IN  IF p = 0 THEN s
        ELSE SubSeq(s, 1, p - 1) \o rep \o SubSeq(s, p + Len(pat), Len(s))

\* key.split(".")[0]
SplitDotFirst(s) ==
    LET p == IndexOf(s, <<".">>)
    IN  IF p = 0 THEN s ELSE SubSeq(s, 1, p - 1)

StartsWith(s, pat) == MatchAt(s, pat, 1)

EndsWith(s, pat) == Len(pat) <= Len(s) /\ MatchAt(s, pat, Len(s) - Len(pat) + 1)

\* a mutant of CeilDiv: Math.floor instead of Math.ceil
FloorDiv(a, b) == a \div b

\* Math.ceil(a / b) for naturals a, b > 0
CeilDiv(a, b) == (a + b - 1) \div b

\* ------------------------------------------------------------ the catalog
RESOLUTIONS == <<
    [name |-> <<"1","4","4","p">>,     width |-> 256,  height |-> 144,  bitrate |-> <<"1","0","0","k">>],
    [name |-> <<"2","4","0","p">>,     width |-> 426,  height |-> 240,  bitrate |-> <<"3","0","0","k">>],
    [name |-> <<"3","6","0","p">>,     width |-> 640,  height |-> 360,  bitrate |-> <<"8","0","0","k">>],
    [name |-> <<"4","8","0","p">>,     width |-> 854,  height |-> 480,  bitrate |-> <<"1","4","0","0","k">>],
    [name |-> <<"7","2","0","p">>,     width |-> 1280, height |-> 720,  bitrate |-> <<"2","8","0","0","k">>],
    [name |-> <<"1","0","8","0","p">>, width |-> 1920, height |-> 1080, bitrate |-> <<"4","5","0","0","k">>],
    [name |-> <<"1","4","4","0","p">>, width |-> 2560, height |-> 1440, bitrate |-> <<"9","0","0","0","k">>],
    [name |-> <<"2","1","6","0","p">>, width |-> 3840, height |-> 2160, bitrate |-> <<"1","2","0","0","0","k">>],
    [name |-> <<"4","3","2","0","p">>, width |-> 7680, height |-> 4320, bitrate |-> <<"5","0","0","0","0","k">>] >>

\* -hls_time 10 and Math.ceil(duration / 10)
SegmentSeconds == 10

\* ------------------------------------------------------------- worker: pure
\* a mutant of Fits: strict comparison
FitsStrict(resolution, width, height) == resolution.width < width /\ resolution.height < height

\* the filter predicate of getValidResolutions
Fits(resolution, width, height) == resolution.width <= width /\ resolution.height <= height

\* a mutant of getValidResolutions: the lowest rendition when nothing fits
getValidResolutionsFallback(width, height) ==
    LET fit == SelectSeq(RESOLUTIONS, LAMBDA r : Fits(r, width, height))
    IN  IF fit = <<>> THEN <<RESOLUTIONS[1]>> ELSE fit

\* Array.prototype.filter over RESOLUTIONS
getValidResolutions(width, height) == SelectSeq(RESOLUTIONS, LAMBDA r : Fits(r, width, height))

\* a mutant of getFormattedKey: the doubled separator is not collapsed
getFormattedKeyNoCollapse(key) ==
    ReplaceFirst(SplitDotFirst(key), <<"v","i","d","e","o","s","/">>, <<>>)

\* key.split(".")[0].replace("videos/", "").replace("//", "/")
getFormattedKey(key) ==
    ReplaceFirst(ReplaceFirst(SplitDotFirst(key), <<"v","i","d","e","o","s","/">>, <<>>),
                 <<"/","/">>, <<"/">>)

M3U8 == <<".","m","3","u","8">>
TS == <<".","t","s">>
HLS == <<"h","l","s">>
MasterName == <<"m","a","s","t","e","r">> \o M3U8

\* the files ffmpeg writes for one rendition: `${name}.m3u8` and
\* `${name}_%0${padding}d.ts` for segment indexes 0 .. segs-1
EncoderFiles(resolution, pad, segs) ==
    {resolution.name \o M3U8} \cup
    {resolution.name \o <<"_">> \o Pad(k, pad) \o TS : k \in 0..(segs - 1)}

\* a mutant of HlsFiles: the listing is filtered by extension only
HlsFilesAnyName(files, resolution) ==
    {f \in files : EndsWith(f, M3U8) \/ EndsWith(f, TS)}

\* the filter of uploadHLSFiles over the directory listing
HlsFiles(files, resolution) ==
    {f \in files : StartsWith(f, resolution.name) /\ (EndsWith(f, M3U8) \/ EndsWith(f, TS))}

\* value of a decimal digit character, -1 for any other character
DigitValue(c) ==
    IF \E d \in 1..Len(Digits) : Digits[d] = c
    THEN (CHOOSE d \in 1..Len(Digits) : Digits[d] = c) - 1
    ELSE -1

RECURSIVE ParseDigits(_, _, _)
\* the digits of s from position p on, up to the first non-digit, after acc
ParseDigits(s, p, acc) ==
    IF p > Len(s) \/ DigitValue(s[p]) < 0 THEN acc
    ELSE ParseDigits(s, p + 1, acc * 10 + DigitValue(s[p]))

\* parseInt of a string that begins with a digit: "1400k" is 1400
parseInt(s) == ParseDigits(s, 1, 0)

\* one stream entry of the master playlist:
\* #EXT-X-STREAM-INF:BANDWIDTH=${bandwidth},RESOLUTION=${w}x${h}\n${name}/${name}.m3u8
PlaylistEntry(resolution) ==
    [bandwidth |-> parseInt(resolution.bitrate) * 1000,
     resolutionString |-> ToStr(resolution.width) \o <<"x">> \o ToStr(resolution.height),
     playlistPath |-> resolution.name \o <<"/">> \o resolution.name \o M3U8]

\* a mutant of PlaylistEntries: every catalog entry is listed
PlaylistEntriesAll(width, height) ==
    [k \in 1..Len(RESOLUTIONS) |-> PlaylistEntry(RESOLUTIONS[k])]

\* playlistEntries: RESOLUTIONS filtered again by the probed size, mapped
PlaylistEntries(width, height) ==
    LET fit == SelectSeq(RESOLUTIONS, LAMBDA r : r.width <= width /\ r.height <= height)
    IN  [k \in 1..Len(fit) |-> PlaylistEntry(fit[k])]

\* `hls/${formattedKey}/master.m3u8`
MasterKey(formattedKey) == HLS \o <<"/">> \o formattedKey \o <<"/">> \o MasterName

\* ------------------------------------------------------------------ state
VARIABLES
    \* --- transcode worker (one process per launched task)
    source,            \* the source object: [key, width, height, duration, segs]
    run,               \* how many times the worker was dispatched on this key
    prevPuts,          \* keys the previous successful run put
    pc,                \* where main() is
    exitCode,          \* process exit status, -1 while none
    failure,           \* [kind, at]: the first collaborator failure, at plan index
    probe,             \* result of getVideoMetadata, <<>> before
    validResolutions,  \* the plan
    padding,           \* estimatedSegments.toString().length
    i,                 \* position of the for..of loop in validResolutions (1-based)
    started,           \* plan indexes whose encode was started, in start order
    encoding,          \* plan indexes whose ffmpeg run is in progress
    ended,             \* plan indexes whose ffmpeg run ended (end or error)
    encodedOk,         \* plan indexes whose ffmpeg run emitted "end"
    outputDir,         \* file names in hls_output
    uploads,           \* file name -> "inflight" | "ok" | "failed", current rendition
    putCalls,          \* keys for which a PutObject call was issued by this run
    puts,              \* keys this run has put successfully
    playlistEntries,   \* stream entries of the master playlist written to master.m3u8
    \* --- event dispatcher
    dpc,               \* where the dispatcher's main()/processMessage() is
    message,           \* the message of the current (or last) delivery
    recIdx,            \* position of the for..of loop in event.Records (1-based)
    deleteCalls,       \* delete calls issued in this delivery
    launchCalls,       \* RunTask calls issued in this delivery
    launchOk,          \* record indexes whose launch succeeded in this delivery
    launchErr,         \* record indexes whose launch failed in this delivery
    acked,             \* a delete call of this delivery succeeded
    deleteDone,        \* delete calls of this delivery that have returned or thrown
    events             \* what went wrong (or was skipped) in this loop iteration

workerVars == <<source, run, prevPuts, pc, exitCode, failure, probe, validResolutions,
                padding, i, started, encoding, ended, encodedOk, outputDir, uploads,
                putCalls, puts, playlistEntries>>

dispatcherVars == <<dpc, message, recIdx, deleteCalls, launchCalls, launchOk, launchErr,
                    acked, deleteDone, events>>

vars == <<workerVars, dispatcherVars>>

\* ----------------------------------------------------- worker: job inputs
KeyA == <<"v","i","d","e","o","s","/","a",".","m","p","4">>
KeyDemo == <<"v","i","d","e","o","s","/","/","c","l","i","p","s","/","d","e","m","o",".","m","p","4">>
KeyPlain == <<"b",".","m","o","v">>
Keys == {KeyA, KeyDemo, KeyPlain}

\* keys built of the pieces getFormattedKey looks at: the "videos/" folder
\* marker, a separator, a name character, a dot
KeyTokens == {<<"v","i","d","e","o","s","/">>, <<"/">>, <<"a">>, <<".">>}

RECURSIVE TokenKeys(_)
\* the keys of at most n tokens
TokenKeys(n) ==
    IF n = 0 THEN {<<>>}
    ELSE LET shorter == TokenKeys(n - 1)
         IN  shorter \cup {k \o t : k \in shorter, t \in KeyTokens}

KeyInputs == (TokenKeys(MaxKeyTokens) \ {<<>>}) \cup Keys

\* probed <<width, height>>: nothing fits; one fits; width allows five but
\* height one; three fit; the whole catalog fits
Probes == {<<100, 100>>, <<256, 144>>, <<1280, 200>>, <<640, 360>>, <<7680, 4320>>}

\* probed durations in seconds: ceil(d / 10) has one digit, two digits
Durations == {5, 95}

\* A source object. segs is the number of segments the encoder cuts it into:
\* a property of the object, the same on every run.
Sources ==
    {[key |-> k, width |-> p[1], height |-> p[2], duration |-> d, segs |-> n] :
        k \in Keys, p \in Probes, d \in Durations, n \in 1..MaxSegs}

NoFailure == [kind |-> "none", at |-> 0]

\* `hls/${formattedKey}/${resolution.name}/${file}` made unique per run:
\* a mutant of UploadKey
UploadKeyPerRun(formattedKey, name, file) ==
    HLS \o <<"/">> \o formattedKey \o <<"_">> \o ToStr(run) \o <<"/">> \o name \o <<"/">> \o file

\* `hls/${formattedKey}/${resolution.name}/${file}`
UploadKey(formattedKey, name, file) ==
    HLS \o <<"/">> \o formattedKey \o <<"/">> \o name \o <<"/">> \o file

\* the state of a freshly launched worker process on source s
WorkerStart(s) ==
    /\ source = s
    /\ pc = "fetching"
    /\ exitCode = -1
    /\ failure = NoFailure
    /\ probe = <<>>
    /\ validResolutions = <<>>
    /\ padding = 0
    /\ i = 1
    /\ started = <<>>
    /\ encoding = {}
    /\ ended = {}
    /\ encodedOk = {}
    /\ outputDir = {}
    /\ uploads = <<>>
    /\ putCalls = {}
    /\ puts = {}
    /\ playlistEntries = <<>>

\* --------------------------------------------------- worker: control flow
\* process.exit(code), or main() returning and the process ending with 0
Exit(code) == pc' = "exited" /\ exitCode' = code /\ UNCHANGED i

\* resolve() of the rendition's promise: the for..of loop goes to the next one
Resolved == pc' = "loop" /\ i' = i + 1 /\ UNCHANGED exitCode

\* the catch of the loop body: log and process.exit(1)
CatchRendition == Exit(1)

\* a mutant of OnTranscodeError: the "error" handler only logs, the
\* rendition's promise never settles
OnTranscodeErrorHangs == UNCHANGED <<pc, exitCode, i>>

\* a mutant of OnTranscodeError: the "error" handler resolves the promise
OnTranscodeErrorResolves == Resolved

\* the "error" handler of the ffmpeg command: reject(transcodeError), which
\* the await in the loop body throws into CatchRendition
OnTranscodeError == CatchRendition

\* a mutant of CatchMain: the catch logs and returns, the process ends with 0
CatchMainSwallows == Exit(0)

\* the catch of main(): log and process.exit(1)
CatchMain == Exit(1)

\* main() returns after the last await: the process ends with status 0
MainReturns == Exit(0)

\* a mutant of NextRendition: the next encode is started without awaiting
\* the promise of the one before
NextRenditionNoAwait(j) ==
    /\ pc \in {"loop", "encoding"}
    /\ j = Len(started) + 1
    /\ j <= Len(validResolutions)

\* for (let resolution of validResolutions) { await ... }: the loop is at
\* its j-th element and nothing of an earlier element is pending
NextRendition(j) == pc = "loop" /\ j = i /\ j <= Len(validResolutions)

\* a mutant of AllUploaded: the uploads are started and not awaited
UploadsNotAwaited == TRUE

\* a mutant of AllUploaded: Promise.allSettled instead of Promise.all
AllSettled == \A f \in DOMAIN uploads : uploads[f] # "inflight"

\* a mutant of AllUploaded: Promise.any instead of Promise.all
AnyUploaded == \E f \in DOMAIN uploads : uploads[f] = "ok"

\* Promise.all(uploadPromises) resolves
AllUploaded == \A f \in DOMAIN uploads : uploads[f] = "ok"

\* Promise.all(uploadPromises) rejects
SomeUploadFailed == \E f \in DOMAIN uploads : uploads[f] = "failed"

Fail(kind, at) == failure' = IF failure = NoFailure THEN [kind |-> kind, at |-> at] ELSE failure

\* ------------------------------------------------------- worker: actions
\* s3Client.send(GetObjectCommand) returns
FetchOk ==
    /\ pc = "fetching"
    /\ pc' = "writing"
    /\ UNCHANGED <<source, run, prevPuts, exitCode, failure, probe, validResolutions,
                   padding, i, started, encoding, ended, encodedOk, outputDir, uploads,
                   putCalls, puts, playlistEntries, dispatcherVars>>

\* s3Client.send(GetObjectCommand) throws
FetchFail ==
    /\ pc = "fetching"
    /\ Fail("fetch", 0)
    /\ CatchMain
    /\ UNCHANGED <<source, run, prevPuts, probe, validResolutions,
                   padding, started, encoding, ended, encodedOk, outputDir, uploads,
                   putCalls, puts, playlistEntries, dispatcherVars>>

\* fsPromises.writeFile(originalFilePath, result.Body) returns
WriteSourceOk ==
    /\ pc = "writing"
    /\ pc' = "probing"
    /\ UNCHANGED <<source, run, prevPuts, exitCode, failure, probe, validResolutions,
                   padding, i, started, encoding, ended, encodedOk, outputDir, uploads,
                   putCalls, puts, playlistEntries, dispatcherVars>>

\* fsPromises.writeFile(originalFilePath, result.Body) throws
WriteSourceFail ==
    /\ pc = "writing"
    /\ Fail("write", 0)
    /\ CatchMain
    /\ UNCHANGED <<source, run, prevPuts, probe, validResolutions,
                   padding, started, encoding, ended, encodedOk, outputDir, uploads,
                   putCalls, puts, playlistEntries, dispatcherVars>>

\* getVideoMetadata resolves; the plan and the padding are computed
ProbeOk ==
    /\ pc = "probing"
    /\ probe' = [duration |-> source.duration, width |-> source.width, height |-> source.height]
    /\ validResolutions' = getValidResolutions(source.width, source.height)
    /\ padding' = Len(ToStr(CeilDiv(source.duration, SegmentSeconds)))
    /\ pc' = "mkdir"
    /\ UNCHANGED <<source, run, prevPuts, exitCode, failure,
                   i, started, encoding, ended, encodedOk, outputDir, uploads,
                   putCalls, puts, playlistEntries, dispatcherVars>>

\* a mutant of ProbeFail: the ffprobe error is logged and the promise
\* resolves with no dimensions, so that the job goes on with nothing to encode
ProbeFailResolves ==
    /\ pc = "probing"
    /\ Fail("probe", 0)
    /\ probe' = [duration |-> 0, width |-> 0, height |-> 0]
    /\ validResolutions' = getValidResolutions(0, 0)
    /\ padding' = Len(ToStr(CeilDiv(0, SegmentSeconds)))
    /\ pc' = "mkdir"
    /\ UNCHANGED <<source, run, prevPuts, exitCode,
                   i, started, encoding, ended, encodedOk, outputDir, uploads,
                   putCalls, puts, playlistEntries, dispatcherVars>>

\* getVideoMetadata rejects
ProbeFail ==
    /\ pc = "probing"
    /\ Fail("probe", 0)
    /\ CatchMain
    /\ UNCHANGED <<source, run, prevPuts, probe, validResolutions,
                   padding, started, encoding, ended, encodedOk, outputDir, uploads,
                   putCalls, puts, playlistEntries, dispatcherVars>>

\* fsPromises.mkdir(outputDir) returns; the loop begins
MkdirOk ==
    /\ pc = "mkdir"
    /\ pc' = "loop"
    /\ UNCHANGED <<source, run, prevPuts, exitCode, failure, probe, validResolutions,
                   padding, i, started, encoding, ended, encodedOk, outputDir, uploads,
                   putCalls, puts, playlistEntries, dispatcherVars>>

\* fsPromises.mkdir(outputDir) throws
MkdirFail ==
    /\ pc = "mkdir"
    /\ Fail("mkdir", 0)
    /\ CatchMain
    /\ UNCHANGED <<source, run, prevPuts, probe, validResolutions,
                   padding, started, encoding, ended, encodedOk, outputDir, uploads,
                   putCalls, puts, playlistEntries, dispatcherVars>>

\* the loop body builds the ffmpeg command of the j-th rendition and runs it
StartEncode(j) ==
    /\ NextRendition(j)
    /\ started' = Append(started, j)
    /\ encoding' = encoding \cup {j}
    /\ pc' = "encoding"
    /\ UNCHANGED <<source, run, prevPuts, exitCode, failure, probe, validResolutions,
                   padding, i, ended, encodedOk, outputDir, uploads,
                   putCalls, puts, playlistEntries, dispatcherVars>>

\* ffmpeg emits "end": the rendition's files are in hls_output and the
\* handler calls uploadHLSFiles, which awaits readdir
EncodeEnd(j) ==
    /\ pc = "encoding"
    /\ j \in encoding
    /\ encoding' = encoding \ {j}
    /\ ended' = ended \cup {j}
    /\ encodedOk' = encodedOk \cup {j}
    /\ outputDir' = outputDir \cup EncoderFiles(validResolutions[j], padding, source.segs)
    /\ pc' = "listing"
    /\ UNCHANGED <<source, run, prevPuts, exitCode, failure, probe, validResolutions,
                   padding, i, started, uploads, putCalls, puts, playlistEntries, dispatcherVars>>

\* ffmpeg emits "error"
EncodeError(j) ==
    /\ pc = "encoding"
    /\ j \in encoding
    /\ encoding' = encoding \ {j}
    /\ ended' = ended \cup {j}
    /\ Fail("encode", j)
    /\ OnTranscodeError
    /\ UNCHANGED <<source, run, prevPuts, probe, validResolutions,
                   padding, started, encodedOk, outputDir, uploads,
                   putCalls, puts, playlistEntries, dispatcherVars>>

\* fsPromises.readdir(outputDir) returns: the files of the rendition are
\* filtered and one uploadToS3 call is started for each
ReaddirOk ==
    /\ pc = "listing"
    /\ LET resolution == validResolutions[i]
           hlsFiles == HlsFiles(outputDir, resolution)
       IN  /\ uploads' = [f \in hlsFiles |-> "inflight"]
           /\ putCalls' = putCalls \cup
                {UploadKey(getFormattedKey(source.key), resolution.name, f) : f \in hlsFiles}
    /\ pc' = "uploading"
    /\ UNCHANGED <<source, run, prevPuts, exitCode, failure, probe, validResolutions,
                   padding, i, started, encoding, ended, encodedOk, outputDir,
                   puts, playlistEntries, dispatcherVars>>

\* fsPromises.readdir(outputDir) throws: uploadHLSFiles rethrows, the "end"
\* handler rejects the rendition's promise
ReaddirFail ==
    /\ pc = "listing"
    /\ Fail("readdir", i)
    /\ CatchRendition
    /\ UNCHANGED <<source, run, prevPuts, probe, validResolutions,
                   padding, started, encoding, ended, encodedOk, outputDir, uploads,
                   putCalls, puts, playlistEntries, dispatcherVars>>

\* the PutObject of file f returns
UploadOk(f) ==
    /\ pc = "uploading"
    /\ uploads[f] = "inflight"
    /\ uploads' = [uploads EXCEPT ![f] = "ok"]
    /\ puts' = puts \cup {UploadKey(getFormattedKey(source.key), validResolutions[i].name, f)}
    /\ UNCHANGED <<source, run, prevPuts, pc, exitCode, failure, probe, validResolutions,
                   padding, i, started, encoding, ended, encodedOk, outputDir,
                   putCalls, playlistEntries, dispatcherVars>>

\* the PutObject of file f throws; uploadToS3 logs and rethrows
UploadFail(f) ==
    /\ pc = "uploading"
    /\ uploads[f] = "inflight"
    /\ uploads' = [uploads EXCEPT ![f] = "failed"]
    /\ Fail("upload", i)
    /\ UNCHANGED <<source, run, prevPuts, pc, exitCode, probe, validResolutions,
                   padding, i, started, encoding, ended, encodedOk, outputDir,
                   putCalls, puts, playlistEntries, dispatcherVars>>

\* await Promise.all(uploadPromises) returns: the "end" handler resolves
UploadsJoinOk ==
    /\ pc = "uploading"
    /\ AllUploaded
    /\ Resolved
    /\ UNCHANGED <<source, run, prevPuts, failure, probe, validResolutions,
                   padding, started, encoding, ended, encodedOk, outputDir, uploads,
                   putCalls, puts, playlistEntries, dispatcherVars>>

\* a mutant of UploadsJoinFail: the catch removes what the job has put
\* before it exits
UploadsJoinFailRollsBack ==
    /\ pc = "uploading"
    /\ SomeUploadFailed
    /\ CatchRendition
    /\ puts' = {}
    /\ UNCHANGED <<source, run, prevPuts, failure, probe, validResolutions,
                   padding, started, encoding, ended, encodedOk, outputDir, uploads,
                   putCalls, playlistEntries, dispatcherVars>>

\* await Promise.all(uploadPromises) throws: the "end" handler rejects
UploadsJoinFail ==
    /\ pc = "uploading"
    /\ SomeUploadFailed
    /\ CatchRendition
    /\ UNCHANGED <<source, run, prevPuts, failure, probe, validResolutions,
                   padding, started, encoding, ended, encodedOk, outputDir, uploads,
                   putCalls, puts, playlistEntries, dispatcherVars>>

\* the loop is over: the master playlist text is built and written to
\* hls_output/master.m3u8
LoopExit ==
    /\ pc = "loop"
    /\ i > Len(validResolutions)
    /\ playlistEntries' = PlaylistEntries(probe.width, probe.height)
    /\ pc' = "writingManifest"
    /\ UNCHANGED <<source, run, prevPuts, exitCode, failure, probe, validResolutions,
                   padding, i, started, encoding, ended, encodedOk, outputDir, uploads,
                   putCalls, puts, dispatcherVars>>

\* writeFile(masterPlaylistPath) returns; uploadToS3 of the manifest starts
WriteManifestOk ==
    /\ pc = "writingManifest"
    /\ outputDir' = outputDir \cup {MasterName}
    /\ putCalls' = putCalls \cup {MasterKey(getFormattedKey(source.key))}
    /\ pc' = "uploadingManifest"
    /\ UNCHANGED <<source, run, prevPuts, exitCode, failure, probe, validResolutions,
                   padding, i, started, encoding, ended, encodedOk, uploads,
                   puts, playlistEntries, dispatcherVars>>

\* writeFile(masterPlaylistPath) throws
WriteManifestFail ==
    /\ pc = "writingManifest"
    /\ Fail("writeManifest", 0)
    /\ CatchMain
    /\ UNCHANGED <<source, run, prevPuts, probe, validResolutions,
                   padding, started, encoding, ended, encodedOk, outputDir, uploads,
                   putCalls, puts, playlistEntries, dispatcherVars>>

\* the PutObject of master.m3u8 returns; main() returns
ManifestUploadOk ==
    /\ pc = "uploadingManifest"
    /\ puts' = puts \cup {MasterKey(getFormattedKey(source.key))}
    /\ MainReturns
    /\ UNCHANGED <<source, run, prevPuts, failure, probe, validResolutions,
                   padding, started, encoding, ended, encodedOk, outputDir, uploads,
                   putCalls, playlistEntries, dispatcherVars>>

\* the PutObject of master.m3u8 throws
ManifestUploadFail ==
    /\ pc = "uploadingManifest"
    /\ Fail("manifest", 0)
    /\ CatchMain
    /\ UNCHANGED <<source, run, prevPuts, probe, validResolutions,
                   padding, started, encoding, ended, encodedOk, outputDir, uploads,
                   putCalls, puts, playlistEntries, dispatcherVars>>

\* the task is killed from outside (timeout, stop) at any point
Kill ==
    /\ pc \notin {"exited", "killed"}
    /\ pc' = "killed"
    /\ UNCHANGED <<source, run, prevPuts, exitCode, failure, probe, validResolutions,
                   padding, i, started, encoding, ended, encodedOk, outputDir, uploads,
                   putCalls, puts, playlistEntries, dispatcherVars>>

\* the same source key is dispatched again after a successful run
\* (redelivery or repeated dispatch): a new process in a new environment
Redispatch ==
    /\ pc = "exited"
    /\ exitCode = 0
    /\ run < MaxRuns
    /\ run' = run + 1
    /\ prevPuts' = puts
    /\ pc' = "fetching"
    /\ exitCode' = -1
    /\ failure' = NoFailure
    /\ probe' = <<>>
    /\ validResolutions' = <<>>
    /\ padding' = 0
    /\ i' = 1
    /\ started' = <<>>
    /\ encoding' = {}
    /\ ended' = {}
    /\ encodedOk' = {}
    /\ outputDir' = {}
    /\ uploads' = <<>>
    /\ putCalls' = {}
    /\ puts' = {}
    /\ playlistEntries' = <<>>
    /\ UNCHANGED <<source, dispatcherVars>>

\* ------------------------------------------------------ dispatcher: pure
LowerCase == <<"a","b","c","d","e","f","g","h","i","j","k","l","m",
               "n","o","p","q","r","s","t","u","v","w","x","y","z">>
UpperCase == <<"A","B","C","D","E","F","G","H","I","J","K","L","M",
               "N","O","P","Q","R","S","T","U","V","W","X","Y","Z">>

\* String.prototype.toUpperCase, one character
UpperChar(c) ==
    IF \E k \in 1..Len(LowerCase) : LowerCase[k] = c
    THEN UpperCase[CHOOSE k \in 1..Len(LowerCase) : LowerCase[k] = c]
    ELSE c

toUpperCase(s) == [k \in 1..Len(s) |-> UpperChar(s[k])]

\* 1-based position of the last occurrence of character c in s, 0 when absent
LastIndexOf(s, c) ==
    IF \E p \in 1..Len(s) : s[p] = c
    THEN CHOOSE p \in 1..Len(s) : s[p] = c /\ \A q \in (p + 1)..Len(s) : s[q] # c
    ELSE 0

\* path.extname of a key that does not end in "/": from the last "." of the
\* last path component, "" when it has none or only a leading one
extname(key) ==
    LET base == SubSeq(key, LastIndexOf(key, "/") + 1, Len(key))
        dot == LastIndexOf(base, ".")
    IN  IF dot <= 1 THEN <<>> ELSE SubSeq(base, dot, Len(base))

ACCEPTABLE_FORMATS == {
    <<".","M","P","4">>, <<".","M","O","V">>, <<".","A","V","I">>,
    <<".","W","M","V">>, <<".","F","L","V">>, <<".","W","E","B","M">> }

\* a mutant of Accepted: the extension is compared as written
AcceptedCaseSensitive(record) ==
    /\ record.bucket # ""
    /\ record.key # <<>>
    /\ extname(record.key) \in ACCEPTABLE_FORMATS

\* a record passes the three checks of the loop body
Accepted(record) ==
    /\ record.bucket # ""
    /\ record.key # <<>>
    /\ toUpperCase(extname(record.key)) \in ACCEPTABLE_FORMATS

\* a mutant of IsTestEvent: the event name is compared with the wrong literal
IsTestEventWrongLiteral(event) ==
    /\ "Service" \in event.fields
    /\ "Event" \in event.fields
    /\ event.Event = "TestEvent"

\* "Service" in event && "Event" in event && event.Event === "s3:TestEvent"
IsTestEvent(event) ==
    /\ "Service" \in event.fields
    /\ "Event" \in event.fields
    /\ event.Event = "s3:TestEvent"

\* a mutant of ProcessHead: the catch of JSON.parse acknowledges the message
\* before it returns
ProcessHeadAcksMalformed(m) ==
    IF m.kind = "absent" THEN "noBody"
    ELSE IF m.kind = "malformed" THEN "testEvent"
    ELSE IF m.kind = "primitive" THEN "typeError"
    ELSE IF IsTestEvent(m.event) THEN "testEvent"
    ELSE IF "Records" \notin m.event.fields THEN "typeError"
    ELSE "records"

\* processMessage up to its first await: which way the message goes.
\*   absent    - Body is undefined or empty
\*   malformed - JSON.parse(Body) throws
\*   primitive - JSON.parse(Body) is not an object: the `in` operator throws
\*   object    - anything else; without Records the for..of throws
ProcessHead(m) ==
    IF m.kind = "absent" THEN "noBody"
    ELSE IF m.kind = "malformed" THEN "parseError"
    ELSE IF m.kind = "primitive" THEN "typeError"
    ELSE IF IsTestEvent(m.event) THEN "testEvent"
    ELSE IF "Records" \notin m.event.fields THEN "typeError"
    ELSE "records"

\* ---------------------------------------------------- dispatcher: inputs
NoEvent == [fields |-> {}, Event |-> "", Records |-> <<>>]

\* notification records: [shape, bucket, key]; shape "noS3" has no s3 field,
\* bucket "" stands for a missing bucket or an empty name
RecAccepted == [shape |-> "s3", bucket |-> "raw", key |-> KeyA]
RecMixedCase == [shape |-> "s3", bucket |-> "raw", key |-> <<"c",".","W","e","b","M">>]
RecText == [shape |-> "s3", bucket |-> "raw", key |-> <<"n",".","t","x","t">>]
RecNoBucket == [shape |-> "s3", bucket |-> "", key |-> KeyA]
RecNoKey == [shape |-> "s3", bucket |-> "raw", key |-> <<>>]
RecNoS3 == [shape |-> "noS3", bucket |-> "", key |-> <<>>]
RecordShapes == {RecAccepted, RecMixedCase, RecText, RecNoBucket, RecNoKey, RecNoS3}

RecordLists == UNION {[1..n -> RecordShapes] : n \in 0..MaxRecords}

MsgAbsent == [kind |-> "absent", event |-> NoEvent]
MsgMalformed == [kind |-> "malformed", event |-> NoEvent]
MsgPrimitive == [kind |-> "primitive", event |-> NoEvent]
MsgTestEvent ==
    [kind |-> "object",
     event |-> [fields |-> {"Service", "Event"}, Event |-> "s3:TestEvent", Records |-> <<>>]]
MsgOtherEvent ==
    [kind |-> "object",
     event |-> [fields |-> {"Service", "Event"}, Event |-> "s3:Other", Records |-> <<>>]]
MsgEmptyObject == [kind |-> "object", event |-> NoEvent]
MsgRecords(rs) ==
    [kind |-> "object", event |-> [fields |-> {"Records"}, Event |-> "", Records |-> rs]]

Messages ==
    {MsgAbsent, MsgMalformed, MsgPrimitive, MsgTestEvent, MsgOtherEvent, MsgEmptyObject}
    \cup {MsgRecords(rs) : rs \in RecordLists}

NoMessage == [kind |-> "none", event |-> NoEvent]

DispatcherStart ==
    /\ dpc = "receive"
    /\ message = NoMessage
    /\ recIdx = 1
    /\ deleteCalls = 0
    /\ launchCalls = 0
    /\ launchOk = {}
    /\ launchErr = {}
    /\ acked = FALSE
    /\ deleteDone = 0
    /\ events = {}

\* --------------------------------------------------- dispatcher: actions
\* a mutant of LoopCatch: the try/catch is around the while loop, not in it
LoopCatchOutside == "stopped"

\* where main() continues after the catch in the body of while (true)
LoopCatch == "receive"

\* a mutant of AtReceive: processMessage is called without await, the loop
\* issues the next receive while calls of the message are pending
AtReceiveNoAwait == dpc \in {"receive", "launching", "deleting", "deletingTest"}

\* while (true) is at sqsClient.send(command): every await of the iteration
\* before has returned
AtReceive == dpc = "receive"

\* a new loop iteration forgets the delivery before
NewIteration(m) ==
    /\ message' = m
    /\ recIdx' = 1
    /\ deleteCalls' = 0
    /\ launchCalls' = 0
    /\ launchOk' = {}
    /\ launchErr' = {}
    /\ acked' = FALSE
    /\ deleteDone' = 0

\* sqsClient.send(ReceiveMessageCommand) throws
ReceiveError ==
    /\ AtReceive
    /\ NewIteration(NoMessage)
    /\ events' = {"receiveError"}
    /\ dpc' = LoopCatch
    /\ UNCHANGED workerVars

\* the long poll returns no Messages: continue
ReceiveEmpty ==
    /\ AtReceive
    /\ NewIteration(NoMessage)
    /\ events' = {"empty"}
    /\ dpc' = "receive"
    /\ UNCHANGED workerVars

\* the long poll returns one message (MaxNumberOfMessages: 1)
ReceiveMessage(m) ==
    /\ AtReceive
    /\ NewIteration(m)
    /\ events' = {}
    /\ dpc' = "process"
    /\ UNCHANGED workerVars

\* if (!Body) return
ProcessNoBody ==
    /\ dpc = "process"
    /\ ProcessHead(message) = "noBody"
    /\ events' = events \cup {"noBody"}
    /\ dpc' = "receive"
    /\ UNCHANGED <<message, recIdx, deleteCalls, launchCalls, launchOk, launchErr, acked,
                   deleteDone, workerVars>>

\* JSON.parse throws: log and return
ProcessParseError ==
    /\ dpc = "process"
    /\ ProcessHead(message) = "parseError"
    /\ events' = events \cup {"parseError"}
    /\ dpc' = "receive"
    /\ UNCHANGED <<message, recIdx, deleteCalls, launchCalls, launchOk, launchErr, acked,
                   deleteDone, workerVars>>

\* the `in` operator on a non-object, or for..of over a missing Records:
\* processMessage rejects with a TypeError, which main() catches in the loop
ProcessThrows ==
    /\ dpc = "process"
    /\ ProcessHead(message) = "typeError"
    /\ events' = events \cup {"typeError"}
    /\ dpc' = LoopCatch
    /\ UNCHANGED <<message, recIdx, deleteCalls, launchCalls, launchOk, launchErr, acked,
                   deleteDone, workerVars>>

\* a TestEvent: deleteMessageFromQueue is called
ProcessTestEvent ==
    /\ dpc = "process"
    /\ ProcessHead(message) = "testEvent"
    /\ deleteCalls' = deleteCalls + 1
    /\ dpc' = "deletingTest"
    /\ UNCHANGED <<message, recIdx, launchCalls, launchOk, launchErr, acked, events,
                   deleteDone, workerVars>>

\* the delete of a TestEvent returns or throws; deleteMessageFromQueue
\* catches the error itself, processMessage returns
DeleteTestReturns(ok) ==
    /\ dpc = "deletingTest"
    /\ acked' = (acked \/ ok)
    /\ deleteDone' = deleteDone + 1
    /\ events' = IF ok THEN events ELSE events \cup {"deleteError"}
    /\ dpc' = "receive"
    /\ UNCHANGED <<message, recIdx, deleteCalls, launchCalls, launchOk, launchErr,
                   workerVars>>

\* the for..of over event.Records begins
ProcessRecords ==
    /\ dpc = "process"
    /\ ProcessHead(message) = "records"
    /\ recIdx' = 1
    /\ dpc' = "record"
    /\ UNCHANGED <<message, deleteCalls, launchCalls, launchOk, launchErr, acked, events,
                   deleteDone, workerVars>>

\* the for..of is over: processMessage returns
RecordsDone ==
    /\ dpc = "record"
    /\ recIdx > Len(message.event.Records)
    /\ dpc' = "receive"
    /\ UNCHANGED <<message, recIdx, deleteCalls, launchCalls, launchOk, launchErr, acked,
                   events, deleteDone, workerVars>>

\* a record without s3: the destructuring throws a TypeError out of
\* processMessage, which main() catches in the loop
RecordThrows ==
    /\ dpc = "record"
    /\ recIdx <= Len(message.event.Records)
    /\ message.event.Records[recIdx].shape = "noS3"
    /\ events' = events \cup {"typeError"}
    /\ dpc' = LoopCatch
    /\ UNCHANGED <<message, recIdx, deleteCalls, launchCalls, launchOk, launchErr, acked,
                   deleteDone, workerVars>>

\* a mutant of RecordSkip: a rejected record has the message deleted, so
\* that it is not delivered again
RecordSkipDeletes ==
    /\ dpc = "record"
    /\ recIdx <= Len(message.event.Records)
    /\ message.event.Records[recIdx].shape = "s3"
    /\ ~Accepted(message.event.Records[recIdx])
    /\ events' = events \cup {"rejected"}
    /\ deleteCalls' = deleteCalls + 1
    /\ dpc' = "deleting"
    /\ UNCHANGED <<message, recIdx, launchCalls, launchOk, launchErr, acked,
                   deleteDone, workerVars>>

\* bucket name or key missing, or extension not accepted: continue
RecordSkip ==
    /\ dpc = "record"
    /\ recIdx <= Len(message.event.Records)
    /\ message.event.Records[recIdx].shape = "s3"
    /\ ~Accepted(message.event.Records[recIdx])
    /\ events' = events \cup {"rejected"}
    /\ recIdx' = recIdx + 1
    /\ UNCHANGED <<dpc, message, deleteCalls, launchCalls, launchOk, launchErr, acked,
                   deleteDone, workerVars>>

\* an accepted record: ecsClient.send(RunTaskCommand) is called
RecordLaunch ==
    /\ dpc = "record"
    /\ recIdx <= Len(message.event.Records)
    /\ message.event.Records[recIdx].shape = "s3"
    /\ Accepted(message.event.Records[recIdx])
    /\ launchCalls' = launchCalls + 1
    /\ dpc' = "launching"
    /\ UNCHANGED <<message, recIdx, deleteCalls, launchOk, launchErr, acked, events,
                   deleteDone, workerVars>>

\* a mutant of LaunchOk: the message is deleted once, at its first launch
LaunchOkDeletesOnce ==
    /\ dpc = "launching"
    /\ launchOk' = launchOk \cup {recIdx}
    /\ deleteCalls' = IF deleteCalls = 0 THEN 1 ELSE deleteCalls
    /\ dpc' = IF deleteCalls = 0 THEN "deleting" ELSE "record"
    /\ recIdx' = IF deleteCalls = 0 THEN recIdx ELSE recIdx + 1
    /\ UNCHANGED <<message, launchCalls, launchErr, acked, events, deleteDone, workerVars>>

\* RunTask returns: deleteMessageFromQueue is called
LaunchOk ==
    /\ dpc = "launching"
    /\ launchOk' = launchOk \cup {recIdx}
    /\ deleteCalls' = deleteCalls + 1
    /\ dpc' = "deleting"
    /\ UNCHANGED <<message, recIdx, launchCalls, launchErr, acked, events, deleteDone, workerVars>>

\* RunTask throws: the catch of the loop body logs; next record
LaunchFail ==
    /\ dpc = "launching"
    /\ launchErr' = launchErr \cup {recIdx}
    /\ events' = events \cup {"launchError"}
    /\ recIdx' = recIdx + 1
    /\ dpc' = "record"
    /\ UNCHANGED <<message, deleteCalls, launchCalls, launchOk, acked, deleteDone, workerVars>>

\* the delete after a launch returns or throws; deleteMessageFromQueue
\* catches the error itself; next record
DeleteReturns(ok) ==
    /\ dpc = "deleting"
    /\ acked' = (acked \/ ok)
    /\ deleteDone' = deleteDone + 1
    /\ events' = IF ok THEN events ELSE events \cup {"deleteError"}
    /\ recIdx' = recIdx + 1
    /\ dpc' = "record"
    /\ UNCHANGED <<message, deleteCalls, launchCalls, launchOk, launchErr, workerVars>>

\* ------------------------------------------------------- specifications
WorkerNext ==
    \/ FetchOk \/ FetchFail
    \/ WriteSourceOk \/ WriteSourceFail
    \/ ProbeOk \/ ProbeFail
    \/ MkdirOk \/ MkdirFail
    \/ \E j \in 1..Len(RESOLUTIONS) : StartEncode(j) \/ EncodeEnd(j) \/ EncodeError(j)
    \/ ReaddirOk \/ ReaddirFail
    \/ \E f \in DOMAIN uploads : UploadOk(f) \/ UploadFail(f)
    \/ UploadsJoinOk \/ UploadsJoinFail
    \/ LoopExit
    \/ WriteManifestOk \/ WriteManifestFail
    \/ ManifestUploadOk \/ ManifestUploadFail
    \/ Kill
    \/ Redispatch

\* the steps of the worker process itself: each is the return of a call
\* it is waiting for
WorkerStep ==
    \/ FetchOk \/ FetchFail
    \/ WriteSourceOk \/ WriteSourceFail
    \/ ProbeOk \/ ProbeFail
    \/ MkdirOk \/ MkdirFail
    \/ \E j \in 1..Len(RESOLUTIONS) : StartEncode(j) \/ EncodeEnd(j) \/ EncodeError(j)
    \/ ReaddirOk \/ ReaddirFail
    \/ \E f \in DOMAIN uploads : UploadOk(f) \/ UploadFail(f)
    \/ UploadsJoinOk \/ UploadsJoinFail
    \/ LoopExit
    \/ WriteManifestOk \/ WriteManifestFail
    \/ ManifestUploadOk \/ ManifestUploadFail

DispatcherNext ==
    \/ ReceiveError \/ ReceiveEmpty
    \/ \E m \in Messages : ReceiveMessage(m)
    \/ ProcessNoBody \/ ProcessParseError \/ ProcessThrows
    \/ ProcessTestEvent
    \/ \E ok \in BOOLEAN : DeleteTestReturns(ok)
    \/ ProcessRecords \/ RecordsDone \/ RecordThrows \/ RecordSkip \/ RecordLaunch
    \/ LaunchOk \/ LaunchFail
    \/ \E ok \in BOOLEAN : DeleteReturns(ok)

\* the worker, dispatched on any source of Sources
WorkerInit ==
    /\ \E s \in Sources : WorkerStart(s)
    /\ run = 1
    /\ prevPuts = {}
    /\ DispatcherStart

WorkerSpec == WorkerInit /\ [][WorkerNext]_vars

\* sources of no, of one and of three renditions, of two segments
LiveSources ==
    {[key |-> KeyA, width |-> p[1], height |-> p[2], duration |-> 5, segs |-> 2] :
        p \in {<<100, 100>>, <<256, 144>>, <<640, 360>>}}

WorkerLiveInit ==
    /\ \E s \in LiveSources : WorkerStart(s)
    /\ run = 1
    /\ prevPuts = {}
    /\ DispatcherStart

\* each collaborator call of the worker returns or fails in the end
WorkerLive == WorkerLiveInit /\ [][WorkerNext]_vars /\ WF_vars(WorkerStep)

\* the dispatcher
DispatcherInit ==
    /\ WorkerStart(CHOOSE s \in Sources : TRUE)
    /\ run = 1
    /\ prevPuts = {}
    /\ DispatcherStart

DispatcherSpec == DispatcherInit /\ [][DispatcherNext]_vars

\* each collaborator call of the dispatcher returns or throws in the end
DispatcherLive == DispatcherSpec /\ WF_vars(DispatcherNext)

\* the planner alone, on every probe around the catalog's widths and heights
PlanWidths == {0} \cup UNION {{RESOLUTIONS[c].width - 1, RESOLUTIONS[c].width, RESOLUTIONS[c].width + 1} :
                                c \in 1..Len(RESOLUTIONS)}
PlanHeights == {0} \cup UNION {{RESOLUTIONS[c].height - 1, RESOLUTIONS[c].height, RESOLUTIONS[c].height + 1} :
                                 c \in 1..Len(RESOLUTIONS)}

PlanInit ==
    /\ \E w \in PlanWidths, h \in PlanHeights :
          WorkerStart([key |-> KeyA, width |-> w, height |-> h, duration |-> 95, segs |-> 1])
    /\ run = 1
    /\ prevPuts = {}
    /\ DispatcherStart

PlanNext == FetchOk \/ WriteSourceOk \/ ProbeOk

PlanSpec == PlanInit /\ [][PlanNext]_vars

\* the worker on any key of KeyInputs, a source of one rendition and one
\* segment, every collaborator call succeeding
KeyInit ==
    /\ \E k \in KeyInputs :
          WorkerStart([key |-> k, width |-> 256, height |-> 144, duration |-> 5, segs |-> 1])
    /\ run = 1
    /\ prevPuts = {}
    /\ DispatcherStart

KeyNext ==
    \/ FetchOk \/ WriteSourceOk \/ ProbeOk \/ MkdirOk
    \/ StartEncode(1) \/ EncodeEnd(1)
    \/ ReaddirOk
    \/ \E f \in DOMAIN uploads : UploadOk(f)
    \/ UploadsJoinOk
    \/ LoopExit
    \/ WriteManifestOk
    \/ ManifestUploadOk

KeySpec == KeyInit /\ [][KeyNext]_vars

\* probed durations at and around the powers of ten of the segment count
PadDurations == {0, 1, 5, 9, 10, 11, 90, 91, 95, 100, 101, 990, 991, 1000}

\* the worker on a source of two renditions and any duration of
\* PadDurations, every collaborator call succeeding
PadInit ==
    /\ \E d \in PadDurations :
          WorkerStart([key |-> KeyA, width |-> 426, height |-> 240, duration |-> d, segs |-> 1])
    /\ run = 1
    /\ prevPuts = {}
    /\ DispatcherStart

PadNext ==
    \/ FetchOk \/ WriteSourceOk \/ ProbeOk \/ MkdirOk
    \/ \E j \in 1..2 : StartEncode(j) \/ EncodeEnd(j)
    \/ ReaddirOk
    \/ \E f \in DOMAIN uploads : UploadOk(f)
    \/ UploadsJoinOk
    \/ LoopExit
    \/ WriteManifestOk
    \/ ManifestUploadOk

PadSpec == PadInit /\ [][PadNext]_vars

\* ================================================================ claims
formattedKey == getFormattedKey(source.key)

\* the keys of the files the encoder writes for the j-th planned rendition
RenditionKeys(j) ==
    {HLS \o <<"/">> \o formattedKey \o <<"/">> \o validResolutions[j].name \o <<"/">> \o f :
        f \in EncoderFiles(validResolutions[j], padding, source.segs)}

\* a key under hls/P/{name of the j-th planned rendition}/
InRendition(key, j) ==
    StartsWith(key, HLS \o <<"/">> \o formattedKey \o <<"/">> \o validResolutions[j].name \o <<"/">>)

\* C1: once the encode of the i-th planned rendition has failed, no later
\* rendition was started or had a put call issued, no put call for the
\* master manifest was issued, and the process has exited with status 1.
C1_FailFastOnEncodeFailure ==
    failure.kind = "encode" =>
        /\ \A j \in 1..Len(validResolutions) :
              j > failure.at =>
                  /\ \A k \in 1..Len(started) : started[k] # j
                  /\ \A key \in putCalls : ~InRendition(key, j)
        /\ MasterKey(formattedKey) \notin putCalls
        /\ pc = "exited"
        /\ exitCode = 1

\* the second of three planned renditions failed; the first one's files stay
C1_Witness ==
    /\ failure = [kind |-> "encode", at |-> 2]
    /\ Len(validResolutions) = 3
    /\ pc = "exited"
    /\ RenditionKeys(1) \subseteq puts

\* C2: in every state (a killed worker's included) master.m3u8 has been put
\* only if the plan was made and every planned rendition was encoded with
\* "end" and every file the encoder wrote for it has been put.
C2_NoPartialPublish ==
    MasterKey(formattedKey) \in puts =>
        /\ probe # <<>>
        /\ \A j \in 1..Len(validResolutions) :
              /\ j \in encodedOk
              /\ RenditionKeys(j) \subseteq puts

C2_Witness ==
    /\ MasterKey(formattedKey) \in puts
    /\ Len(validResolutions) = 3
    /\ source.segs = 2

\* C8: at most one encode is in progress, encodes are started in plan order,
\* each once, and every encode but the last started has ended.
C8_SequentialEncodes ==
    /\ Cardinality(encoding) <= 1
    /\ \A k \in 1..Len(started) : started[k] = k
    /\ \A k \in 1..(Len(started) - 1) : started[k] \in ended /\ started[k] \notin encoding
    /\ encoding \subseteq {started[k] : k \in 1..Len(started)}

C8_Witness ==
    /\ Len(started) = 3
    /\ encoding = {3}
    /\ ended = {1, 2}

\* C9: the process exits with 0 only with the master manifest put, and once
\* a collaborator call has failed the worker does nothing but exit with 1
\* (a failed upload first waits in the join of the rendition's uploads).
C9_ExitStatus ==
    /\ pc = "exited" => exitCode \in {0, 1}
    /\ (pc = "exited" /\ exitCode = 0) => (MasterKey(formattedKey) \in puts /\ failure = NoFailure)
    /\ (failure # NoFailure /\ pc # "killed") =>
          \/ pc = "exited" /\ exitCode = 1
          \/ pc = "uploading" /\ failure.kind = "upload" /\ exitCode = -1

\* a first run exited with 0, a second one fails an upload and exits with 1
C9_Witness ==
    /\ run = 2
    /\ MasterKey(formattedKey) \in prevPuts
    /\ failure.kind = "upload"
    /\ pc = "exited"
    /\ exitCode = 1

\* C10: a second successful run on the same source has put exactly the keys
\* the first successful run put.
C10_IdempotentRedispatch ==
    (run > 1 /\ pc = "exited" /\ exitCode = 0) => puts = prevPuts

C10_Witness ==
    /\ run = 2
    /\ pc = "exited"
    /\ exitCode = 0
    /\ Cardinality(puts) > 3
    /\ puts = prevPuts

\* position of a rendition in the catalog
CatalogIndex(r) == CHOOSE c \in 1..Len(RESOLUTIONS) : RESOLUTIONS[c] = r

\* C7: the plan holds exactly the catalog entries with width <= w and
\* height <= h, in strictly ascending catalog position (none twice).
C7_PlanIsCatalogFilter ==
    probe # <<>> =>
        /\ {validResolutions[k] : k \in 1..Len(validResolutions)} =
              {RESOLUTIONS[c] : c \in {d \in 1..Len(RESOLUTIONS) :
                  RESOLUTIONS[d].width <= probe.width /\ RESOLUTIONS[d].height <= probe.height}}
        /\ \A a, b \in 1..Len(validResolutions) :
              a < b => CatalogIndex(validResolutions[a]) < CatalogIndex(validResolutions[b])

\* the width admits five entries, the height two
C7_Witness ==
    /\ probe # <<>>
    /\ probe.width = 1280
    /\ probe.height = 241
    /\ Len(validResolutions) = 2

\* C3: a TestEvent message gets no launch call and, once processed, exactly
\* one delete call.
C3_TestEventOneDelete ==
    (message.kind = "object" /\ message.event.Event = "s3:TestEvent"
        /\ {"Service", "Event"} \subseteq message.event.fields) =>
        /\ launchCalls = 0
        /\ deleteCalls <= 1
        /\ dpc \in {"process", "deletingTest", "receive"}
        /\ dpc = "receive" => deleteCalls = 1
        /\ dpc = "deletingTest" => deleteCalls = 1

C3_Witness ==
    /\ message = MsgTestEvent
    /\ dpc = "receive"
    /\ deleteCalls = 1
    /\ launchCalls = 0

\* C4: a message whose body does not parse gets no delete call and no launch
\* call, is not acknowledged, and the loop is back at the receive.
C4_MalformedNotAcked ==
    message.kind = "malformed" =>
        /\ deleteCalls = 0
        /\ launchCalls = 0
        /\ ~acked
        /\ dpc \in {"process", "receive"}
        /\ dpc = "receive" => "parseError" \in events

C4_Witness ==
    /\ message.kind = "malformed"
    /\ dpc = "receive"
    /\ deleteCalls = 0

\* C5: for every accepted record, a successful launch is followed by a delete
\* call, and while some record's launch has failed in this delivery the
\* message has had no delete call (it stays un-acknowledged for redelivery).
C5_AckOnlyWithoutLaunchFailure ==
    /\ launchOk # {} => deleteCalls >= 1
    /\ launchErr # {} => (deleteCalls = 0 /\ ~acked)

\* C6: whatever went wrong in a loop iteration (receive error, empty receive,
\* parse error, a JSON payload that is neither a TestEvent nor has Records,
\* launch error, delete error), the dispatcher gets back to its receive.
LoopFailures == {"receiveError", "empty", "parseError", "typeError", "launchError", "deleteError"}

C6_LoopSurvives == (events \cap LoopFailures # {}) ~> (dpc = "receive")

C6_Witness ==
    /\ dpc = "receive"
    /\ {"launchError", "deleteError"} \subseteq events

\* C11 as stated: for every source key, the output prefix of the output
\* prefix is the output prefix.
C11_PrefixIdempotent ==
    getFormattedKey(getFormattedKey(source.key)) = getFormattedKey(source.key)

VideosMarker == <<"v","i","d","e","o","s","/">>
DoubledSeparator == <<"/","/">>
ClipsDemo == <<"/","c","l","i","p","s","/","d","e","m","o">>

\* C11, amended: the output prefix P of a key is a fixed point of the
\* function exactly when P holds no "videos/" and no "//" (only the first
\* occurrence of each is rewritten), P never holds a dot, every key the run
\* puts lies under hls/P/ whichever call site computed P, and the prefix of
\* videos//clips/demo.mp4 is /clips/demo.
C11_PrefixFixedPointIffClean ==
    LET P == getFormattedKey(source.key)
    IN  /\ (getFormattedKey(P) = P) <=>
              (IndexOf(P, VideosMarker) = 0 /\ IndexOf(P, DoubledSeparator) = 0)
        /\ IndexOf(P, <<".">>) = 0
        /\ \A key \in putCalls \cup puts : StartsWith(key, HLS \o <<"/">> \o P \o <<"/">>)
        /\ source.key = KeyDemo => P = ClipsDemo

\* a key whose prefix is rewritten again, its output published
C11_Witness ==
    /\ getFormattedKey(getFormattedKey(source.key)) # getFormattedKey(source.key)
    /\ pc = "exited"
    /\ exitCode = 0
    /\ MasterKey(getFormattedKey(source.key)) \in puts
    /\ Cardinality(puts) = 3

\* the accepted container formats as the specification lists them
AcceptedExtensions == {
    <<".","m","p","4">>, <<".","m","o","v">>, <<".","a","v","i">>,
    <<".","w","m","v">>, <<".","f","l","v">>, <<".","w","e","b","m">> }

LowerChar(c) ==
    IF \E k \in 1..Len(UpperCase) : UpperCase[k] = c
    THEN LowerCase[CHOOSE k \in 1..Len(UpperCase) : UpperCase[k] = c]
    ELSE c

\* the key is a non-empty file name followed by the extension, whatever
\* the case of its letters
HasExtension(key, ext) ==
    /\ Len(key) > Len(ext)
    /\ EndsWith([k \in 1..Len(key) |-> LowerChar(key[k])], ext)
    /\ key[Len(key) - Len(ext)] # "/"

\* bucket name and key non-empty, extension in the allow-list
Launchable(record) ==
    /\ record.bucket # ""
    /\ record.key # <<>>
    /\ \E ext \in AcceptedExtensions : HasExtension(record.key, ext)

\* the records of the current message the loop has gone through
Examined ==
    IF dpc = "process" THEN 0
    ELSE IF dpc \in {"launching", "deleting"} THEN recIdx
    ELSE recIdx - 1

C13_UploadFailureFailsJob ==
    failure.kind = "upload" =>
        /\ \A k \in 1..Len(started) : started[k] <= failure.at
        /\ playlistEntries = <<>>
        /\ MasterKey(formattedKey) \notin putCalls
        /\ pc \in {"uploading", "exited", "killed"}
        /\ pc = "uploading" => (i = failure.at /\ exitCode = -1)
        /\ pc = "exited" => exitCode = 1

\* of the files of the second of three renditions one was put and one failed
C13_Witness ==
    /\ failure = [kind |-> "upload", at |-> 2]
    /\ Len(validResolutions) = 3
    /\ \E f \in DOMAIN uploads : uploads[f] = "ok"
    /\ \E f \in DOMAIN uploads : uploads[f] = "failed"
    /\ \A f \in DOMAIN uploads : uploads[f] # "inflight"
    /\ RenditionKeys(1) \subseteq puts
    /\ pc = "exited"
    /\ exitCode = 1

\* the video bitrates of the catalog in kbps, in catalog order
CatalogKbps == <<100, 300, 800, 1400, 2800, 4500, 9000, 12000, 50000>>

\* C14: from the moment the master playlist text is built, it holds one
\* stream entry per planned rendition, in plan order, each naming that
\* rendition's playlist and size, with BANDWIDTH = kbps * 1000 (the
\* "1400k" of 480p gives 1400000); each listed rendition was encoded with
\* "end" and has every file put.
C14_ManifestListsPlan ==
    (pc \in {"writingManifest", "uploadingManifest"} \/ MasterKey(formattedKey) \in putCalls) =>
        /\ Len(playlistEntries) = Len(validResolutions)
        /\ \A k \in 1..Len(validResolutions) :
              LET r == validResolutions[k]
                  e == playlistEntries[k]
              IN  /\ e.playlistPath = r.name \o <<"/">> \o r.name \o M3U8
                  /\ e.bandwidth = CatalogKbps[CatalogIndex(r)] * 1000
                  /\ e.resolutionString = ToStr(r.width) \o <<"x">> \o ToStr(r.height)
                  /\ r.name = <<"4","8","0","p">> => e.bandwidth = 1400000
                  /\ k \in encodedOk
                  /\ RenditionKeys(k) \subseteq puts

\* the whole catalog is planned; the fourth entry is the one of 480p
C14_Witness ==
    /\ MasterKey(formattedKey) \in puts
    /\ Len(validResolutions) = 9
    /\ Len(playlistEntries) = 9
    /\ playlistEntries[4].bandwidth = 1400000
    /\ playlistEntries[9].bandwidth = 50000000

\* no catalog entry is within the probed size
NothingFits ==
    /\ probe # <<>>
    /\ \A c \in 1..Len(RESOLUTIONS) :
          RESOLUTIONS[c].width > probe.width \/ RESOLUTIONS[c].height > probe.height

\* C15: when no catalog entry fits the probed size the plan is empty, no
\* encode is started, no put call other than the master playlist's is
\* issued, the playlist built has zero entries, the only failures are those
\* of a collaborator call (mkdir, writing or putting the playlist), and a
\* run without such a failure exits with 0 and the master playlist put.
C15_EmptyPlanSucceeds ==
    NothingFits =>
        /\ validResolutions = <<>>
        /\ started = <<>>
        /\ encoding = {}
        /\ putCalls \subseteq {MasterKey(formattedKey)}
        /\ playlistEntries = <<>>
        /\ failure.kind \in {"none", "mkdir", "writeManifest", "manifest"}
        /\ (pc = "exited" /\ failure = NoFailure) =>
              (exitCode = 0 /\ puts = {MasterKey(formattedKey)})

C15_Witness ==
    /\ NothingFits
    /\ pc = "exited"
    /\ exitCode = 0
    /\ puts = {MasterKey(formattedKey)}
    /\ playlistEntries = <<>>
    /\ MasterName \in outputDir

\* launch and delete calls of the current message that have not returned
PendingCalls ==
    (launchCalls - Cardinality(launchOk \cup launchErr)) + (deleteCalls - deleteDone)

\* a receive is issued
ReceiveStep == ReceiveError \/ ReceiveEmpty \/ \E m \in Messages : ReceiveMessage(m)

\* C16: there is one current message, at most one of its launch and delete
\* calls is pending at any time, and a receive is issued only when the
\* handling of the message before has returned and none of its launch and
\* delete calls is pending.
C16_NoOverlap ==
    /\ [](PendingCalls \in {0, 1})
    /\ [][ReceiveStep => (dpc = "receive" /\ PendingCalls = 0)]_vars

\* both records of a message were launched and deleted; the next receive
\* is about to be issued
C16_Witness ==
    /\ dpc = "receive"
    /\ Len(message.event.Records) = 2
    /\ launchCalls = 2
    /\ Cardinality(launchOk) = 2
    /\ deleteCalls = 2
    /\ deleteDone = 2

\* C17: for a message that is not a test event, the delete calls issued in
\* a delivery are as many as the records whose launch has succeeded: one
\* per launched record, however many records the message has.
C17_DeletePerLaunchedRecord ==
    ~IsTestEvent(message.event) => deleteCalls = Cardinality(launchOk)

\* two records: the launch of the first failed, the second was launched
\* and got the one delete call
C17_Witness ==
    /\ dpc = "receive"
    /\ Len(message.event.Records) = 2
    /\ launchErr = {1}
    /\ launchOk = {2}
    /\ deleteCalls = 1

\* C18: once the GetObject of the source or the probe of the downloaded
\* file has failed, the run has no probe result and no plan, has started no
\* encode, has issued no put call and put nothing, has built no playlist,
\* and has exited with status 1.
C18_FetchOrProbeFailure ==
    failure.kind \in {"fetch", "probe"} =>
        /\ probe = <<>>
        /\ validResolutions = <<>>
        /\ started = <<>>
        /\ outputDir = {}
        /\ putCalls = {}
        /\ puts = {}
        /\ playlistEntries = <<>>
        /\ pc = "exited"
        /\ exitCode = 1

\* the probe of a source fetched and written to disk fails
C18_Witness ==
    /\ failure = [kind |-> "probe", at |-> 0]
    /\ source.width = 7680
    /\ pc = "exited"
    /\ exitCode = 1
    /\ putCalls = {}

\* the playlist of the run has been built
ManifestBuilt ==
    \/ pc \in {"writingManifest", "uploadingManifest"}
    \/ MasterKey(formattedKey) \in putCalls

\* C19: while the encode of a planned rendition has been started, every
\* file of every rendition before it has been put; once the master playlist
\* is built, every file of every planned rendition has been put; and
\* whenever the loop has gone on from a rendition (to the next encode or to
\* the playlist), each upload of the rendition it left had returned without
\* error.
C19_UploadsJoinedBeforeAdvance ==
    /\ \A j \in 1..Len(validResolutions) :
          (\E k \in 1..Len(started) : started[k] > j) => RenditionKeys(j) \subseteq puts
    /\ ManifestBuilt => \A j \in 1..Len(validResolutions) : RenditionKeys(j) \subseteq puts
    /\ (i > 1 /\ pc \in {"loop", "encoding", "listing", "writingManifest", "uploadingManifest"}) =>
          /\ DOMAIN uploads # {}
          /\ \A f \in DOMAIN uploads : uploads[f] = "ok"

\* the second rendition is being encoded, the three files of the first are put
C19_Witness ==
    /\ Len(started) = 2
    /\ encoding = {2}
    /\ source.segs = 2
    /\ Cardinality(RenditionKeys(1)) = 3
    /\ RenditionKeys(1) \subseteq puts
    /\ i = 2

Terminal == {"exited", "killed"}

\* the job is in Failed: the process has exited with status 1
Failed == pc = "exited" /\ exitCode = 1

\* Failed is one, at most two, at most three steps of the worker away
CanFail1 == ENABLED (WorkerStep /\ Failed')
CanFail2 == CanFail1 \/ ENABLED (WorkerStep /\ CanFail1')
CanFail3 == CanFail2 \/ ENABLED (WorkerStep /\ CanFail2')

\* the process does nothing that can be seen from outside
NothingMore ==
    UNCHANGED <<pc, exitCode, started, encoding, ended, putCalls, puts, outputDir,
                playlistEntries>>

\* C20: a worker whose collaborator calls all return gets from every state
\* to the end of its process (exit, or a kill from outside); from every
\* state before that end some sequence of at most three returns takes it to
\* exit status 1; and behind the end nothing more is encoded, put or built
\* by that process (a later dispatch is a new process).
C20_Terminates ==
    /\ (pc \notin Terminal) ~> (pc \in Terminal)
    /\ [](pc \notin Terminal => CanFail3)
    /\ [][(pc \in Terminal) => (NothingMore \/ run' = run + 1)]_vars

\* a run over three renditions that came to its end with exit status 0
C20_Witness ==
    /\ pc = "exited"
    /\ exitCode = 0
    /\ Len(started) = 3
    /\ ended = {1, 2, 3}
    /\ run = 1

\* C21: no step of a job takes a key out of the set of keys it has put or
\* out of the set of keys it has issued a put for, the step into a failed
\* exit included (a later dispatch is a new job); and after a failure in
\* the loop at rendition i every file of the renditions before i is put.
C21_PutsOnlyGrow ==
    /\ [][(run' = run) => (puts \subseteq puts' /\ putCalls \subseteq putCalls')]_vars
    /\ [](failure.kind \in {"encode", "readdir", "upload"} =>
             \A j \in 1..(failure.at - 1) : RenditionKeys(j) \subseteq puts)

\* an upload of the third rendition failed after another of its files was
\* put; the files of the first two renditions and that file stay
C21_Witness ==
    /\ failure = [kind |-> "upload", at |-> 3]
    /\ pc = "exited"
    /\ exitCode = 1
    /\ RenditionKeys(1) \cup RenditionKeys(2) \subseteq puts
    /\ \E key \in puts : InRendition(key, 3)

\* the published keys of the j-th planned rendition for a source of n
\* segments: its playlist and its segments under hls/P/{name}/
LayoutKeys(j, n) ==
    LET name == validResolutions[j].name
        dir == HLS \o <<"/">> \o formattedKey \o <<"/">> \o name \o <<"/">>
    IN  {dir \o name \o M3U8} \cup
        {dir \o name \o <<"_">> \o Pad(k, padding) \o TS : k \in 0..(n - 1)}

\* C22: every key the job has issued a put for is a key of the published
\* layout for P: a playlist or segment key of a rendition whose encode was
\* started, or hls/P/master.m3u8; in the upload phase of rendition i the
\* files being put are exactly the playlist and the segments of rendition
\* i, and the put calls issued so far are exactly those of renditions 1..i.
C22_PublishedLayout ==
    /\ puts \subseteq putCalls
    /\ putCalls \subseteq
          UNION {LayoutKeys(j, source.segs) : j \in 1..Len(started)}
              \cup {HLS \o <<"/">> \o formattedKey \o <<"/">> \o MasterName}
    /\ pc = "uploading" =>
          /\ DOMAIN uploads =
                {validResolutions[i].name \o M3U8} \cup
                {validResolutions[i].name \o <<"_">> \o Pad(k, padding) \o TS :
                    k \in 0..(source.segs - 1)}
          /\ putCalls = UNION {LayoutKeys(j, source.segs) : j \in 1..i}

\* 1440p is being uploaded while the files of 144p are in the directory
C22_Witness ==
    /\ pc = "uploading"
    /\ Len(validResolutions) = 9
    /\ i = 7
    /\ <<"1","4","4","p">> \o M3U8 \in outputDir
    /\ Cardinality(DOMAIN uploads) = 3
    /\ \E f \in DOMAIN uploads : uploads[f] = "ok"

\* the least q with q * 10 >= d
SegmentEstimate(d) == CHOOSE q \in 0..d : q * 10 >= d /\ (q = 0 \/ (q - 1) * 10 < d)

\* the number of decimal digits of n < 10000
DecimalDigits(n) == IF n < 10 THEN 1 ELSE IF n < 100 THEN 2 ELSE IF n < 1000 THEN 3 ELSE 4

\* C23: once the source is probed, the padding width is the number of
\* decimal digits of ceil(duration / 10) (2 for duration 95); the first
\* segment of every rendition encoded is named {name}_ followed by that
\* many zeros and .ts ("00" for duration 95), with the one width for all
\* renditions of the job.
C23_PaddingWidth ==
    probe # <<>> =>
        /\ padding = DecimalDigits(SegmentEstimate(probe.duration))
        /\ probe.duration = 95 => (SegmentEstimate(probe.duration) = 10 /\ padding = 2)
        /\ \A j \in encodedOk :
              /\ validResolutions[j].name \o <<"_">> \o [k \in 1..padding |-> "0"] \o TS \in outputDir
              /\ probe.duration = 95 =>
                    validResolutions[j].name \o <<"_", "0", "0">> \o TS \in outputDir

\* both renditions of a source of 95 seconds are encoded and put
C23_Witness ==
    /\ probe # <<>>
    /\ probe.duration = 95
    /\ padding = 2
    /\ encodedOk = {1, 2}
    /\ <<"2","4","0","p","_","0","0">> \o TS \in outputDir
    /\ pc = "exited"

\* the message is the test notification: Service and Event present, Event
\* equal to s3:TestEvent
TestNotification ==
    /\ message.kind = "object"
    /\ {"Service", "Event"} \subseteq message.event.fields
    /\ message.event.Event = "s3:TestEvent"

\* C24: a delete call has been issued in a delivery only if the message is
\* the test notification or the launch for one of its records has already
\* returned in this delivery, and a message is acknowledged only with a
\* delete call; a message without body, with a body that does not parse, or
\* with rejected records only has no delete call.
C24_NoAckWithoutDispatch ==
    /\ deleteCalls > 0 => (TestNotification \/ launchOk # {})
    /\ acked => deleteCalls > 0
    /\ message.kind \in {"none", "absent", "malformed", "primitive"} => deleteCalls = 0
    /\ (\A k \in 1..Len(message.event.Records) : ~Launchable(message.event.Records[k])) =>
          (TestNotification \/ deleteCalls = 0)

\* two rejected records were gone through: no delete call
C24_Witness ==
    /\ message = MsgRecords(<<RecText, RecNoBucket>>)
    /\ dpc = "receive"
    /\ recIdx = 3
    /\ "rejected" \in events
    /\ deleteCalls = 0
    /\ ~acked

====
